---- MODULE Spec2Model ----
(***************************************************************************)
(* Elliptic-curve group law (crypto/ec.py), random scalars (crypto/rand.py)*)
(* and ECDSA sign / verify (crypto/sig.py).                                *)
(*                                                                         *)
(* Every Python value is a record with a `kind` field: a Point, the        *)
(* Infinity object, an int, a bool, a signature pair, or a raised          *)
(* exception.  Exceptions are named after the condition they signal (all   *)
(* but AttributeError and TypeError are ValueError in the source).         *)
(* A message is represented by int(sha256(m).hexdigest(), 16), its digest. *)
(***************************************************************************)
EXTENDS Integers, Sequences, FiniteSets, TLC

\* ------------------------------------------------------------------ bounds
\* ECDSA.tries of the instance under test (sig.py:21 defaults it to 10).
Tries == 2
\* Digests of the messages handed to sign and verify range over 0..MaxDigest.
MaxDigest == 5
\* Scalars handed to k * P range over -MaxNeg..MaxScalar.
MaxScalar == 6
MaxNeg == 2
\* Scalars j, k of the law (j + k)P = jP + kP range over 0..MaxLawScalar,
\* and over the multiples of the subgroup order.
MaxLawScalar == 3
\* Coordinates handed to Point(x, y, curve) range over 0..MaxCoord.
MaxCoord == 17
\* r and s of a signature verified out of the blue range over 0..MaxSig
\* (and stay below q).
MaxSig == 4
\* Private keys handed to sign range over 0..MaxKey (and stay below q).
MaxKey == 4

\* ------------------------------------------------------------------ values
Pt(x, y, c) == [kind |-> "Point", x |-> x, y |-> y, curve |-> c]
Infinity == [kind |-> "Infinity"]
Raise(e) == [kind |-> "Error", err |-> e]
PyBool(b) == [kind |-> "Bool", val |-> b]
PyInt(n) == [kind |-> "Int", val |-> n]
PyFloat == [kind |-> "Float"]
Sig(r, s) == [kind |-> "Sig", r |-> r, s |-> s]
None == [kind |-> "None"]

IsError(v) == v.kind = "Error"
IsPoint(v) == v.kind = "Point"
IsInfinity(v) == v.kind = "Infinity"

\* ------------------------------------------------------------------ curves
\* Curve(2, 2, 17) of tests/test_ec.py; its group has prime order 19.
Curve17 == [a |-> 2, b |-> 2, p |-> 17, q |-> 19, gx |-> 5, gy |-> 1]
\* y^2 = x^3 + x + 4 over Z_7: group order 10, generator of the subgroup of
\* order 5, a point of order two at (2, 0), and q < p.
Curve7 == [a |-> 1, b |-> 4, p |-> 7, q |-> 5, gx |-> 4, gy |-> 3]
Curves == {Curve17, Curve7}

\* Curve.__eq__ (the generator takes no part)
CurveEq(c1, c2) == c1.a = c2.a /\ c1.b = c2.b /\ c1.p = c2.p /\ c1.q = c2.q

\* Curve.is_point
is_point(c, x, y) == ((y * y) - (x * x * x + c.a * x + c.b)) % c.p = 0

\* ------------------------------------------------------------- modinv, bits
\* pow(a, -1, mod=p) raises ValueError when a has no inverse modulo p.
Invertible(a, p) == \E b \in 0..(p - 1) : (a * b) % p = 1
modinv(a, p) == CHOOSE b \in 0..(p - 1) : (a * b) % p = 1

\* ------------------------------------------------------------------- Point
\* Point.__init__ without its is_point test
PointInit_unchecked(x, y, c) == Pt(x, y, c)

\* Point.__init__
PointInit(x, y, c) ==
    IF ~is_point(c, x, y) THEN Raise("PointNotOnCurve") ELSE Pt(x, y, c)

\* Point.__eq__ / Infinity.__eq__ : Python's `u == v`
PyEq(u, v) ==
    IF IsInfinity(u) THEN IsInfinity(v)
    ELSE IF IsInfinity(v) \/ ~IsPoint(v) THEN FALSE
    ELSE u.x = v.x /\ u.y = v.y /\ CurveEq(u.curve, v.curve)

\* Point.__slope, called with self = p; an int, or the exception of modinv
slope(p, q) ==
    IF PyEq(p, q)
    THEN IF Invertible(2 * p.y, p.curve.p)
         THEN PyInt(((3 * p.x * p.x + p.curve.a) * modinv(2 * p.y, p.curve.p)) % p.curve.p)
         ELSE Raise("NoInverse")
    ELSE IF Invertible(p.x - q.x, p.curve.p)
         THEN PyInt(((p.y - q.y) * modinv(p.x - q.x, p.curve.p)) % p.curve.p)
         ELSE Raise("NoInverse")

\* Point.__add__.  (Here and below a value that later lines use several
\* times is bound by a quantifier over a singleton: it is evaluated once.)
PointAdd(self, other) ==
    IF PyEq(other, Infinity) THEN self
    ELSE IF ~IsPoint(other) THEN Raise("NotAPoint")
    ELSE IF ~CurveEq(self.curve, other.curve) THEN Raise("CurveMismatch")
    ELSE IF self.x = other.x /\ self.y # other.y THEN Infinity
    ELSE LET after(m) ==
                 IF IsError(m) THEN m
                 ELSE LET x_r == (m.val * m.val - self.x - other.x) % self.curve.p
                          y_r == (m.val * (self.x - x_r) - self.y) % self.curve.p
                      IN  PointInit(x_r, y_r, self.curve)
         IN  CHOOSE v \in {after(m) : m \in {slope(self, other)}} : TRUE

\* Point.__radd__
PointRAdd(self, other) == PointAdd(self, other)

\* Python's `u + v` for u, v a Point or Infinity: Infinity defines neither
\* __add__ nor __radd__, so the reflected method of a Point operand is used
\* and two Infinity operands are a TypeError.
Plus(u, v) ==
    IF IsPoint(u) THEN PointAdd(u, v)
    ELSE IF IsPoint(v) THEN PointRAdd(v, u)
    ELSE Raise("TypeError")

\* Point.double
double(self) == Plus(self, self)

\* ------------------------------------------------- scalar multiplication
\* State of the loop of Point.__rmul__: the integer the generator bits() is
\* left with, the accumulator, the addend, and the exception raised (if any).
rmul_start(self, scalar) ==
    [n |-> scalar, result |-> Infinity, addend |-> self, raised |-> None]

\* One pass of `for bit in bits(scalar)`: bits() yields n & 1 and shifts n
\* right (an arithmetic shift: -1 >> 1 is -1), the body adds and doubles.
rmul_iter(st) ==
    LET bit == st.n % 2
        after(res, add) ==
            IF IsError(res) THEN [st EXCEPT !.raised = res]
            ELSE IF IsError(add) THEN [st EXCEPT !.result = res, !.raised = add]
            ELSE [n |-> st.n \div 2, result |-> res, addend |-> add, raised |-> None]
    IN  CHOOSE v \in {after(res, add) :
                        res \in {IF bit = 1 THEN Plus(st.result, st.addend) ELSE st.result},
                        add \in {Plus(st.addend, st.addend)}} : TRUE

\* The loop run to its end (bits() stops when n is 0).
RECURSIVE rmul_loop(_)
rmul_loop(st) ==
    IF IsError(st.raised) THEN st.raised
    ELSE IF st.n = 0 THEN st.result
    ELSE CHOOSE v \in {rmul_loop(nx) : nx \in {rmul_iter(st)}} : TRUE

\* Point.__rmul__ for a scalar whose loop ends
PointRMul(self, scalar) ==
    IF scalar.kind # "Int" THEN Raise("InvalidScalar")
    ELSE rmul_loop(rmul_start(self, scalar.val))

\* Python's `k * v` for an int k: int.__mul__ gives way to v.__rmul__, which
\* Infinity does not define.
Times(k, v) ==
    IF IsPoint(v) THEN PointRMul(v, PyInt(k)) ELSE Raise("TypeError")

\* ------------------------------------------------------------------- rand
\* secrets.randbelow(n): any of 0 .. n-1
randbelow(n) == 0..(n - 1)
\* gen_private_key, gen_nonce
gen_private_key(c) == randbelow(c.q)
gen_nonce(c) == randbelow(c.q)

\* ------------------------------------------------------------------ ECDSA
Generator(c) == Pt(c.gx, c.gy, c)

\* One pass of the loop of ECDSA.sign with the nonce k drawn in it: the pair
\* returned, the exception raised, or None when s is 0 and the loop goes on.
sign_attempt(c, e, private_key, k) ==
    LET after(R) ==
            IF IsError(R) THEN R
            ELSE IF ~IsPoint(R) THEN Raise("AttributeError")
            ELSE IF ~Invertible(k, c.q) THEN Raise("NoInverse")
            ELSE LET r == R.x
                     s == ((e + private_key * r) * modinv(k, c.q)) % c.q
                 IN  IF s # 0 THEN Sig(r, s) ELSE None
    IN  CHOOSE v \in {after(R) : R \in {Times(k, Generator(c))}} : TRUE

\* _verify_params without its is_point test
verify_params_infinity_only(c, publicKey) ==
    IF PyEq(publicKey, Infinity) THEN Raise("PublicKeyIsInfinity") ELSE None

\* ECDSA._verify_params: None when it returns
verify_params(c, publicKey) ==
    IF PyEq(publicKey, Infinity) THEN Raise("PublicKeyIsInfinity")
    ELSE IF ~is_point(c, publicKey.x, publicKey.y) THEN Raise("PublicKeyNotOnCurve")
    ELSE None

\* verify with u2 computed from the digest instead of r
verify_u2_from_digest(c, r, s, e, publicKey) ==
    LET chk == verify_params(c, publicKey) IN
    IF IsError(chk) THEN chk
    ELSE IF ~Invertible(s, c.q) THEN Raise("NoInverse")
    ELSE LET w == modinv(s, c.q)
             u1 == (w * e) % c.q
             u2 == (w * e) % c.q
             compare(P) ==
                 IF IsError(P) THEN P
                 ELSE IF ~IsPoint(P) THEN Raise("AttributeError")
                 ELSE PyBool(P.x = (r % c.q))
             sum(A, B) ==
                 IF IsError(A) THEN A
                 ELSE IF IsError(B) THEN B
                 ELSE CHOOSE v \in {compare(P) : P \in {Plus(A, B)}} : TRUE
         IN  CHOOSE v \in {sum(A, B) : A \in {Times(u1, Generator(c))},
                                        B \in {Times(u2, publicKey)}} : TRUE

\* ECDSA.verify, e the digest of the message
verify(c, r, s, e, publicKey) ==
    LET chk == verify_params(c, publicKey) IN
    IF IsError(chk) THEN chk
    ELSE IF ~Invertible(s, c.q) THEN Raise("NoInverse")
    ELSE LET w == modinv(s, c.q)
             u1 == (w * e) % c.q
             u2 == (w * r) % c.q
             compare(P) ==
                 IF IsError(P) THEN P
                 ELSE IF ~IsPoint(P) THEN Raise("AttributeError")
                 ELSE PyBool(P.x = (r % c.q))
             sum(A, B) ==
                 IF IsError(A) THEN A
                 ELSE IF IsError(B) THEN B
                 ELSE CHOOSE v \in {compare(P) : P \in {Plus(A, B)}} : TRUE
         IN  CHOOSE v \in {sum(A, B) : A \in {Times(u1, Generator(c))},
                                        B \in {Times(u2, publicKey)}} : TRUE

\* ------------------------------------------------------------- the program
\* A caller makes one call at a time.  pc is where the call stands, call its
\* name and arguments, ret what it returned or raised (None while it runs).
\* st is the loop state of a running Point.__rmul__, att the number of
\* passes a running ECDSA.sign has completed, nonce the last nonce it drew.
VARIABLES pc, call, ret, st, att, nonce
vars == <<pc, call, ret, st, att, nonce>>

\* The points Point(x, y, curve) accepts with reduced coordinates
Points(c) ==
    {Pt(xy[1], xy[2], c) :
        xy \in {v \in (0..(c.p - 1)) \X (0..(c.p - 1)) : is_point(c, v[1], v[2])}}
AllPoints == UNION {Points(c) : c \in Curves}
Operands == AllPoints \cup {Infinity}
Digests == 0..MaxDigest
Scalars == {PyInt(k) : k \in (0 - MaxNeg)..MaxScalar} \cup {PyFloat}
LawScalars(P) == (0..MaxLawScalar) \cup {P.curve.q}
Min(a, b) == IF a < b THEN a ELSE b
FreeSig(c) == 0..Min(c.q - 1, MaxSig)
Keys(c) == {d \in gen_private_key(c) : d <= MaxKey}

Init ==
    /\ pc = "idle"
    /\ call = [op |-> "none"]
    /\ ret = None
    /\ st = None
    /\ att = 0
    /\ nonce = None

Return(c, v) ==
    /\ pc' = "done"
    /\ call' = c
    /\ ret' = v

\* Point(x, y, curve)
Construct ==
    /\ pc = "idle"
    /\ \E c \in Curves, x \in 0..MaxCoord, y \in 0..MaxCoord :
        /\ Return([op |-> "Point", x |-> x, y |-> y, curve |-> c], PointInit(x, y, c))
        /\ UNCHANGED <<st, att, nonce>>

\* u + v
AddCall ==
    /\ pc = "idle"
    /\ \E u \in Operands, v \in Operands :
        /\ Return([op |-> "add", u |-> u, v |-> v], Plus(u, v))
        /\ UNCHANGED <<st, att, nonce>>

\* P.double()
DoubleCall ==
    /\ pc = "idle"
    /\ \E P \in AllPoints :
        /\ Return([op |-> "double", u |-> P], double(P))
        /\ UNCHANGED <<st, att, nonce>>

\* scalar * v up to the loop of Point.__rmul__
MulCall ==
    /\ pc = "idle"
    /\ \E scalar \in Scalars, v \in Operands :
        /\ call' = [op |-> "mul", scalar |-> scalar, u |-> v]
        /\ IF ~IsPoint(v)
           THEN pc' = "done" /\ ret' = Raise("TypeError") /\ st' = st
           ELSE IF scalar.kind # "Int"
           THEN pc' = "done" /\ ret' = Raise("InvalidScalar") /\ st' = st
           ELSE pc' = "mul" /\ ret' = None /\ st' = rmul_start(v, scalar.val)
        /\ UNCHANGED <<att, nonce>>

\* one more bit of the scalar, or the return when bits() is exhausted
MulStep ==
    /\ pc = "mul"
    /\ IF st.n = 0
       THEN pc' = "done" /\ ret' = st.result /\ st' = st
       ELSE \E nx \in {rmul_iter(st)} :
            /\ st' = nx
            /\ IF IsError(nx.raised)
               THEN pc' = "done" /\ ret' = nx.raised
               ELSE pc' = pc /\ ret' = ret
    /\ UNCHANGED <<call, att, nonce>>

\* (j + k) * P == j * P + k * P
LawCall ==
    /\ pc = "idle"
    /\ \E P \in AllPoints : \E j \in LawScalars(P), k \in LawScalars(P) :
        /\ \E lhs \in {Times(j + k, P)}, jP \in {Times(j, P)}, kP \in {Times(k, P)} :
           \E rhs \in {IF IsError(jP) THEN jP ELSE IF IsError(kP) THEN kP ELSE Plus(jP, kP)} :
               Return([op |-> "law", u |-> P, j |-> j, k |-> k],
                      IF IsError(lhs) THEN lhs
                      ELSE IF IsError(rhs) THEN rhs
                      ELSE PyBool(PyEq(lhs, rhs)))
        /\ UNCHANGED <<st, att, nonce>>

\* gen_private_key(curve)
GenKey ==
    /\ pc = "idle"
    /\ \E c \in Curves : \E d \in gen_private_key(c) :
        /\ Return([op |-> "gen_private_key", curve |-> c], PyInt(d))
        /\ UNCHANGED <<st, att, nonce>>

\* ECDSA(curve, Tries).sign(m, private_key) up to its loop
SignCall ==
    /\ pc = "idle"
    /\ \E c \in Curves, e \in Digests : \E d \in Keys(c) :
        /\ call' = [op |-> "sign", curve |-> c, e |-> e, d |-> d]
        /\ IF Tries = 0
           THEN pc' = "done" /\ ret' = Raise("SignatureGenerationFailed")
           ELSE pc' = "sign" /\ ret' = None
        /\ att' = 0
        /\ UNCHANGED <<st, nonce>>

\* one pass of the loop of sign; the raise that follows the last pass
SignAttempt ==
    /\ pc = "sign"
    /\ \E k \in gen_nonce(call.curve) :
        /\ nonce' = PyInt(k)
        /\ att' = att + 1
        /\ \E out \in {sign_attempt(call.curve, call.e, call.d, k)} :
           IF out # None
           THEN pc' = "done" /\ ret' = out
           ELSE IF att + 1 = Tries
           THEN pc' = "done" /\ ret' = Raise("SignatureGenerationFailed")
           ELSE pc' = pc /\ ret' = ret
    /\ UNCHANGED <<call, st>>

\* verify(r, s, m, publicKey) on an instance of ECDSA(curve)
VerifyFree ==
    /\ pc = "idle"
    /\ \E c \in Curves, e \in Digests, publicKey \in Operands :
       \E r \in FreeSig(c), s \in FreeSig(c) :
        /\ Return([op |-> "verify", curve |-> c, r |-> r, s |-> s, e |-> e,
                    publicKey |-> publicKey, signed |-> None],
                  verify(c, r, s, e, publicKey))
        /\ UNCHANGED <<st, att, nonce>>

\* verify of what sign returned with the public key private_key * G, as is
\* or with one of s, the message and r replaced
VerifyOf(r, s, e) ==
    \E publicKey \in {Times(call.d, Generator(call.curve))} :
    Return([op |-> "verify", curve |-> call.curve, r |-> r, s |-> s, e |-> e,
            publicKey |-> publicKey,
            signed |-> [kind |-> "Signed", r |-> ret.r, s |-> ret.s,
                        e |-> call.e, d |-> call.d]],
           verify(call.curve, r, s, e, publicKey))

VerifySigned ==
    /\ pc = "done" /\ call.op = "sign" /\ ret.kind = "Sig"
    /\ \/ \E s \in 0..(call.curve.q - 1) : VerifyOf(ret.r, s, call.e)
       \/ \E e \in Digests : VerifyOf(ret.r, ret.s, e)
       \/ \E r \in 0..(call.curve.q - 1) : VerifyOf(r, ret.s, call.e)
    /\ att' = 0
    /\ nonce' = None
    /\ UNCHANGED st

Next ==
    \/ Construct
    \/ AddCall
    \/ DoubleCall
    \/ MulCall
    \/ MulStep
    \/ LawCall
    \/ GenKey
    \/ SignCall
    \/ SignAttempt
    \/ VerifyFree
    \/ VerifySigned

Spec == Init /\ [][Next]_vars

\* ------------------------------------------------------------ properties
Finished(op) == pc = "done" /\ call.op = op

\* The curve equation y^2 = x^3 + a x + b (mod p), written out
OnCurve(P) ==
    (P.y * P.y) % P.curve.p
        = (P.x * P.x * P.x + P.curve.a * P.x + P.curve.b) % P.curve.p

\* A finished verify of a signature sign returned for a private key in (0, q)
VerifiedSigned == Finished("verify") /\ call.signed # None /\ call.signed.d > 0
Untouched == call.r = call.signed.r /\ call.s = call.signed.s /\ call.e = call.signed.e

\* C1: for a private key d with 0 < d < q, sign returns a pair (r, s) whatever
\* nonces it draws, and verify of that pair, the same message and d*G is True.
C1_RoundTrip ==
    /\ (Finished("sign") /\ call.d > 0) => ret.kind = "Sig"
    /\ (VerifiedSigned /\ Untouched) => ret = PyBool(TRUE)

\* C2: adding P = (x, y) and Point(x, (p - y) mod p) returns Infinity, also
\* when y = 0.
C2_InverseLaw ==
    (/\ Finished("add") /\ IsPoint(call.u) /\ IsPoint(call.v)
     /\ call.v.curve = call.u.curve
     /\ call.v.x = call.u.x
     /\ call.v.y = (call.u.curve.p - call.u.y) % call.u.curve.p)
    => ret = Infinity

\* C3: for non-negative j and k, (j + k)*P == j*P + k*P evaluates to True and
\* neither side raises, also when j*P or k*P is Infinity.
C3_Distributive == Finished("law") => ret = PyBool(TRUE)

\* C4: when the point u1*G + u2*publicKey that verify reconstructs is
\* Infinity (also when both summands are), verify returns False and does
\* not raise.
ReconstructsInfinity ==
    /\ Finished("verify")
    /\ ~IsError(verify_params(call.curve, call.publicKey))
    /\ Invertible(call.s, call.curve.q)
    /\ LET w == modinv(call.s, call.curve.q)
           A == Times((w * call.e) % call.curve.q, Generator(call.curve))
           B == Times((w * call.r) % call.curve.q, call.publicKey)
       IN  /\ ~IsError(A) /\ ~IsError(B)
           /\ \/ IsInfinity(A) /\ IsInfinity(B)
              \/ IsInfinity(Plus(A, B))
C4_InfinityIsFalse == ReconstructsInfinity => ret = PyBool(FALSE)

NegativeMul ==
    call.op = "mul" /\ IsPoint(call.u) /\ call.scalar.kind = "Int" /\ call.scalar.val < 0
C6_NegativeScalarRaises ==
    NegativeMul ~> (pc = "done" /\ IsError(ret))

\* C7: sign draws at most Tries nonces, returns (r, s) with s # 0 at the
\* first pass that yields one, and fails only with SignatureGenerationFailed,
\* after exactly Tries passes.
C7_SignRetry ==
    /\ (pc = "sign") => att < Tries
    /\ Finished("sign") =>
          \/ ret.kind = "Sig" /\ ret.s # 0 /\ att <= Tries
          \/ ret = Raise("SignatureGenerationFailed") /\ att = Tries

\* C8: Point(x, y, curve) raises PointNotOnCurve when (x, y) does not satisfy
\* the curve equation, and every Point that is constructed, returned by +,
\* double or *, or held by the loop of * satisfies the equation of its curve.
C8_PointsOnCurve ==
    /\ Finished("Point") =>
          ret = IF OnCurve(Pt(call.x, call.y, call.curve))
                THEN Pt(call.x, call.y, call.curve)
                ELSE Raise("PointNotOnCurve")
    /\ IsPoint(ret) => OnCurve(ret)
    /\ (pc = "mul") => /\ IsPoint(st.result) => OnCurve(st.result)
                       /\ IsPoint(st.addend) => OnCurve(st.addend)
C8_Witness ==
    /\ Finished("mul") /\ call.scalar.kind = "Int" /\ call.scalar.val > 2
    /\ IsPoint(ret) /\ ret # call.u

\* C9: verify raises PublicKeyIsInfinity for the public key Infinity and
\* PublicKeyNotOnCurve for one off the curve of the instance, whatever r, s
\* and the message are (s = 0 included), and returns neither True nor False.
C9_MalformedKey ==
    Finished("verify") =>
        /\ IsInfinity(call.publicKey) => ret = Raise("PublicKeyIsInfinity")
        /\ (IsPoint(call.publicKey)
              /\ ~OnCurve(Pt(call.publicKey.x, call.publicKey.y, call.curve)))
             => ret = Raise("PublicKeyNotOnCurve")
C9_Witness ==
    /\ Finished("verify") /\ call.s = 0
    /\ IsPoint(call.publicKey)
    /\ ~OnCurve(Pt(call.publicKey.x, call.publicKey.y, call.curve))
    /\ ret = Raise("PublicKeyNotOnCurve")

\* C10: every nonce sign draws and every key gen_private_key returns is
\* strictly between 0 and q.
C10_NonzeroScalars ==
    /\ (nonce # None) => (0 < nonce.val /\ nonce.val < call.curve.q)
    /\ Finished("gen_private_key") => (0 < ret.val /\ ret.val < call.curve.q)

\* Point.__rmul__ alone, for the claims about its loop
MulNext == MulCall \/ MulStep
MulSpec == Init /\ [][MulNext]_vars /\ WF_vars(MulStep)

====
